---- MODULE Spec2Model ----
(***************************************************************************)
(* A model of the remark-mermaid tree transformer of                       *)
(* src/src/mermaidRender.ts: the exported entry points mermaidRender and   *)
(* mermaidGuardless, the recursive async function _transformer, and the    *)
(* per-block pipeline transformMermaidBlock -> createRender ->             *)
(* transformParsedMermaidBlock.                                            *)
(*                                                                         *)
(* JavaScript values are tagged records, so that null, undefined and       *)
(* strings stay distinct; strings are TLA+ strings and are taken apart     *)
(* character by character with SubSeq.  The syntax tree is a nested value  *)
(* and every call of _transformer is identified by the path (sequence of   *)
(* child indexes) of the node it was called on.  The synchronous part of   *)
(* a call (up to its first pending await) is one step; each completion of  *)
(* a render, of a write and of a Promise.all is a step of its own.         *)
(***************************************************************************)
EXTENDS Integers, Sequences, FiniteSets, TLC

(***************************************************************************)
(* JavaScript values                                                       *)
(***************************************************************************)
Str(s) == [t |-> "string", v |-> s]

Null == [t |-> "null"]

Undefined == [t |-> "undefined"]

IsStr(x) == x.t = "string"

\* the === operator: same type and same value
StrictEq(x, y) == x.t = y.t /\ x = y

\* property read o[k]: undefined when o has no property k
Get(o, k) == IF k \in DOMAIN o THEN o[k] ELSE Undefined

\* the ?? operator
Coalesce(x, y) == IF x.t \in {"null", "undefined"} THEN y ELSE x

(***************************************************************************)
(* String primitives of the JavaScript runtime used by the transformer     *)
(***************************************************************************)
CharAt(s, i) == SubSeq(s, i, i)

\* index of the first occurrence of the one-character string c in s, or 0
RECURSIVE IndexFrom(_, _, _)
IndexFrom(s, c, i) ==
    IF i > Len(s) THEN 0
    ELSE IF CharAt(s, i) = c THEN i
    ELSE IndexFrom(s, c, i + 1)

\* String.prototype.split with a one-character separator and no limit
RECURSIVE Split(_, _)
Split(s, c) ==
    LET i == IndexFrom(s, c, 1) IN
    IF i = 0 THEN <<s>>
    ELSE <<SubSeq(s, 1, i - 1)>> \o Split(SubSeq(s, i + 1, Len(s)), c)

UpperChars == "ABCDEFGHIJKLMNOPQRSTUVWXYZ"

LowerChars == "abcdefghijklmnopqrstuvwxyz"

LowerChar(c) ==
    LET i == IndexFrom(UpperChars, c, 1) IN
    IF i = 0 THEN c ELSE CharAt(LowerChars, i)

\* String.prototype.toLowerCase, on the characters the inputs use
RECURSIVE toLowerCase(_)
toLowerCase(s) ==
    IF s = "" THEN ""
    ELSE LowerChar(CharAt(s, 1)) \o toLowerCase(SubSeq(s, 2, Len(s)))

\* path.resolve(cwd, f) for an absolute cwd and an f without "." or ".."
\* segments: an absolute f stands alone, an empty f yields cwd
resolve(cwd, f) ==
    IF f = "" THEN cwd
    ELSE IF CharAt(f, 1) = "/" THEN f
    ELSE cwd \o "/" \o f

(***************************************************************************)
(* has and contains                                                        *)
(***************************************************************************)
\* the == operator on the values the objects hold: a boolean compared with
\* a number is converted to 0 or 1, null and undefined equal each other
LooseEq(x, y) ==
    LET num(z) == IF z.t = "boolean" THEN (IF z.v THEN 1 ELSE 0) ELSE z.v IN
    IF x.t = y.t THEN x = y
    ELSE IF {x.t, y.t} = {"number", "boolean"} THEN num(x) = num(y)
    ELSE {x.t, y.t} = {"null", "undefined"}

\* has comparing with == instead of ===
hasLoose(v1, v2) == \A k \in DOMAIN v2 : LooseEq(Get(v1, k), v2[k])

\* has satisfied by a single matching key
hasSome(v1, v2) == \E k \in DOMAIN v2 : StrictEq(Get(v1, k), v2[k])

has(v1, v2) == \A k \in DOMAIN v2 : StrictEq(Get(v1, k), v2[k])

\* contains satisfied by a single key
containsSome(v1, ks) == \E k \in ks : k \in DOMAIN v1

contains(v1, ks) == \A k \in ks : k \in DOMAIN v1

(***************************************************************************)
(* The annotation parser inlined in transformMermaidBlock                  *)
(***************************************************************************)
\* v.split("=") as [string, string], destructured as [k, v]
MetaPair(tok) ==
    LET parts == Split(tok, "=") IN
    [k |-> parts[1],
     v |-> IF Len(parts) >= 2 THEN Str(parts[2]) ELSE Undefined]

\* one step of the reduce: ({[k]: v, ...c}), the spread of c comes last
MetaStep(c, kv) ==
    [x \in DOMAIN c \cup {kv.k} |-> IF x \in DOMAIN c THEN c[x] ELSE kv.v]

RECURSIVE MetaReduce(_, _)
MetaReduce(c, pairs) ==
    IF pairs = <<>> THEN c
    ELSE MetaReduce(MetaStep(c, Head(pairs)), Tail(pairs))

EmptyObject == [x \in {} |-> Undefined]

\* nd.meta.split(" ").map(v => v.split("=")).reduce(..., {})
ParseMeta(s) ==
    LET toks == Split(s, " ") IN
    MetaReduce(EmptyObject, [i \in 1..Len(toks) |-> MetaPair(toks[i])])

(***************************************************************************)
(* Syntax tree nodes (mdast)                                               *)
(***************************************************************************)
Code(lang, meta, value) ==
    [type |-> Str("code"), lang |-> lang, meta |-> meta, value |-> Str(value)]

Text(value) == [type |-> Str("text"), value |-> Str(value)]

Parent(type, children) == [type |-> Str(type), children |-> children]

Paragraph(value) == Parent("paragraph", <<Text(value)>>)

\* "children" in a
HasChildren(n) == "children" \in DOMAIN n

\* the node reached from n by following the child indexes of path p
RECURSIVE NodeAt(_, _)
NodeAt(n, p) ==
    IF p = <<>> THEN n ELSE NodeAt(n.children[Head(p)], Tail(p))

\* the paths of all nodes of the tree n, each prefixed by pre
RECURSIVE PathsFrom(_, _)
PathsFrom(n, pre) ==
    {pre} \cup
    (IF HasChildren(n)
     THEN UNION {PathsFrom(n.children[i], Append(pre, i)) :
                     i \in 1..Len(n.children)}
     ELSE {})

Paths(n) == PathsFrom(n, <<>>)

\* n with the children array of the node at path p assigned to ch
RECURSIVE AssignChildren(_, _, _)
AssignChildren(n, p, ch) ==
    IF p = <<>> THEN [n EXCEPT !.children = ch]
    ELSE [n EXCEPT !.children[Head(p)] =
              AssignChildren(n.children[Head(p)], Tail(p), ch)]

RECURSIVE Flat(_)
Flat(ss) == IF ss = <<>> THEN <<>> ELSE Head(ss) \o Flat(Tail(ss))

\* the paths of the tree in the order _transformer is called on them:
\* a.children.map calls it on each child in turn, depth first
RECURSIVE CallOrder(_, _)
CallOrder(n, pre) ==
    <<pre>> \o
    (IF HasChildren(n)
     THEN Flat([i \in 1..Len(n.children) |->
                   CallOrder(n.children[i], Append(pre, i))])
     ELSE <<>>)

RECURSIVE SelectPaths(_, _)
SelectPaths(ps, S) ==
    IF ps = <<>> THEN <<>>
    ELSE (IF Head(ps) \in S THEN <<Head(ps)>> ELSE <<>>)
             \o SelectPaths(Tail(ps), S)

(***************************************************************************)
(* Inputs: the documents and options the transformer is run on             *)
(***************************************************************************)
MaxChildren == 2

MetaExample == "file=example.svg name=Example_Diagram"

MetaAlt == "alt=Flow name=Fig file=/out/fig.svg"

MetaNoName == "file=example.svg"

MetaNoFile == "name=Example_Diagram alt=Flow"

Graph1 == "graph TD; A-->B;"

Graph2 == "graph LR; C-->D;"

MetaBareFile == "file name=Example_Diagram"

MetaBareName == "file=example.svg name"

\* the blocks that documents of several children are built from
CoreBlocks ==
    {Code(Str("mermaid"), Str(MetaExample), Graph1),
     Code(Str("mermaid"), Str(MetaAlt), Graph2),
     Code(Str("mermaid"), Str(MetaNoName), Graph1),
     Code(Str("mermaid"), Null, Graph1),
     Code(Str("js"), Str(MetaExample), Graph1),
     Paragraph("Hello world!"),
     Parent("blockquote", <<Code(Str("mermaid"), Str(MetaExample), Graph1)>>),
     Parent("blockquote",
            <<Paragraph("World, hello!"),
              Code(Str("mermaid"), Str(MetaAlt), Graph2)>>)}

\* further annotations and sub-languages, each tried in a document of its own
EdgeBlocks ==
    {Code(Str("mermaid"), Str(MetaNoFile), Graph1),
     Code(Str("mermaid"), Str(""), Graph1),
     Code(Str("mermaid"), Str(MetaBareFile), Graph1),
     Code(Str("mermaid"), Str(MetaBareName), Graph1),
     [type |-> Str("code"), lang |-> Str("mermaid"), value |-> Str(Graph1)],
     Code(Null, Str(MetaExample), Graph1),
     [type |-> Str("code"), meta |-> Str(MetaExample), value |-> Str(Graph1)],
     [type |-> Str("html"), lang |-> Str("mermaid"),
      meta |-> Str(MetaExample), value |-> Str(Graph1)]}

Blocks == CoreBlocks \cup EdgeBlocks

\* the document of the test corpus in mermaidRender.spec.ts
ExampleDoc ==
    Parent("root",
           <<Paragraph("Hello world!"),
             Code(Str("mermaid"), Str(MetaExample), Graph1),
             Paragraph("World, hello!")>>)

\* the same document with name omitted from the annotation
ExampleDocNoName ==
    Parent("root",
           <<Paragraph("Hello world!"),
             Code(Str("mermaid"), Str(MetaNoName), Graph1),
             Paragraph("World, hello!")>>)

\* an annotation that declares the file of MetaExample under another name
MetaSameFile == "file=example.svg name=Other_Diagram"

\* a document whose two Target Blocks declare the same file
SameFileDoc ==
    Parent("root",
           <<Code(Str("mermaid"), Str(MetaExample), Graph1),
             Code(Str("mermaid"), Str(MetaSameFile), Graph2)>>)

Docs ==
    {Parent("root", ch) :
        ch \in UNION {[1..n -> CoreBlocks] : n \in 0..MaxChildren}}
    \cup {Parent("root", <<b>>) : b \in EdgeBlocks}
    \cup {ExampleDoc, ExampleDocNoName, SameFileDoc}

\* the exported functions accept any node
Inputs == Docs \cup Blocks

\* the documents tried after the first one
LaterInputs ==
    {Parent("root", <<b>>) : b \in Blocks} \cup {ExampleDoc, ExampleDocNoName}

Entries == {"mermaidRender", "mermaidGuardless"}

SuppliedBrowser == [t |-> "browser", id |-> "supplied"]

LaunchedBrowser == [t |-> "browser", id |-> "launched"]

\* a sub-language tag a caller may try to configure as the diagram marker
OtherMarker == "js"

OptionSets ==
    {EmptyObject,
     [browser |-> SuppliedBrowser],
     [marker |-> Str(OtherMarker)]}

\* number of documents one attached transformer is run on
MaxDocs == 2

\* annotations for the parser alone: up to MaxTokens tokens joined by " "
MaxTokens == 3

ParseTokens ==
    {"file=a.svg", "file=b.svg", "name=Fig", "name=Other", "alt=Flow",
     "file=a=b.svg"}

\* numbers and booleans, for the objects has is called on
Num(n) == [t |-> "number", v |-> n]

Bool(b) == [t |-> "boolean", v |-> b]

HasKeys == {"cool", "fool", "bool"}

HasValues == {Num(1), Num(2), Bool(TRUE), Undefined}

\* the objects over HasKeys: every key is absent or has one of HasValues
Objects == UNION {[S -> HasValues] : S \in SUBSET HasKeys}

\* the haystack of the test corpus
TestHaystack == [cool |-> Num(1), fool |-> Num(2), bool |-> Bool(TRUE)]

\* the whitespace an info string may hold between two tokens: one space,
\* a run of two spaces, a tab
Separators == {" ", "  ", "\t"}

TokenSeqs == UNION {[1..n -> ParseTokens] : n \in 1..MaxTokens}

\* Array.prototype.join(" ")
RECURSIVE JoinTokens(_)
JoinTokens(ts) ==
    IF ts = <<>> THEN ""
    ELSE IF Len(ts) = 1 THEN ts[1]
    ELSE ts[1] \o " " \o JoinTokens(Tail(ts))

\* ts.join(sep)
RECURSIVE JoinWith(_, _)
JoinWith(ts, sep) ==
    IF ts = <<>> THEN ""
    ELSE IF Len(ts) = 1 THEN ts[1]
    ELSE ts[1] \o sep \o JoinWith(Tail(ts), sep)

\* the VFile handed to the transformer
VFileCwd == "/work"

VFileDirname == "/work/docs"

(***************************************************************************)
(* State                                                                   *)
(***************************************************************************)
VARIABLES
    entry,      \* the exported function under use
    options,    \* the options it was configured with
    input,      \* the node handed to the transformer, as the caller built it
    tree,       \* that same node object now (_transformer assigns children)
    browser,    \* the engine handle held by the closure of mermaidGuardless
    launches,   \* number of puppeteer.launch calls
    top,        \* the promise returned by the exported transformer
    calls,      \* one frame per _transformer call, by path of its node
    renders,    \* renderMermaid calls in the order they were issued
    writes,     \* writeFile calls that completed, in completion order
    messages,   \* the messages attached to the VFile
    docs,       \* number of documents handed to the transformer so far
    rerun,      \* the document at hand is the result of the pass before
    tokens,     \* the tokens of the annotation given to the parser alone
    separator,  \* the whitespace between two tokens of that annotation
    parsed,     \* what the parser made of them
    haystack,   \* the first argument of has called on its own
    needle,     \* its second argument
    verdict     \* what has returned

vars == <<entry, options, input, tree, browser, launches, top, calls,
          renders, writes, messages, docs, rerun, tokens, separator,
          parsed, haystack, needle, verdict>>

\* the state of the parser and of has run on their own
parseVars == <<tokens, separator, parsed, haystack, needle, verdict>>

NotParsed == [done |-> FALSE]

NotCalledYet == [done |-> FALSE]

(***************************************************************************)
(* Frames: the state of one call of the async function _transformer        *)
(***************************************************************************)
NotCalled == [pc |-> "notCalled"]

AwaitChildren == [pc |-> "awaitChildren"]

AwaitRender == [pc |-> "awaitRender"]

AwaitWrite == [pc |-> "awaitWrite"]

\* the call returned its own argument ast
ReturnedAst == [pc |-> "resolved", ret |-> [isArray |-> FALSE]]

\* the call returned the array ret
ReturnedArray(items) ==
    [pc |-> "resolved", ret |-> [isArray |-> TRUE, items |-> items]]

Rejected(name, message) ==
    [pc |-> "rejected", err |-> [name |-> name, message |-> message]]

Settled(f) == f.pc \in {"resolved", "rejected"}

(***************************************************************************)
(* transformMermaidBlock, createRender, transformParsedMermaidBlock        *)
(***************************************************************************)
\* a target pattern whose lang is read from a marker entry of the options
TargetPatternConfigured ==
    [type |-> Str("code"),
     lang |-> Coalesce(Get(options, "marker"), Str("mermaid"))]

\* has(a, { type: "code", lang: "mermaid" })
TargetPattern == [type |-> Str("code"), lang |-> Str("mermaid")]

\* parsedMeta of a block whose meta is a string
ParsedMetaOf(nd) == ParseMeta(nd.meta.v)

\* the path resolved against the directory of the document
FilepathOfDirname(nd) ==
    resolve(VFileDirname, Get(ParsedMetaOf(nd), "file").v)

\* const filepath = path.resolve(cwd, fileTarget)
FilepathOf(nd) == resolve(VFileCwd, Get(ParsedMetaOf(nd), "file").v)

\* the bytes renderMermaid produces for a diagram source
Svg(source) == "<svg>" \o source.v \o "</svg>"

\* transformMermaidBlock from its call to its first pending await:
\* nd.meta.split throws on a meta that is not a string, a block without
\* file and name returns false (and _transformer returns ast), path.resolve
\* throws on an argument that is not a string, otherwise renderMermaid is
\* called and awaited
transformMermaidBlock(nd) ==
    IF ~IsStr(Get(nd, "meta"))
    THEN Rejected("TypeError", "Cannot read property 'split'")
    ELSE IF ~contains(ParsedMetaOf(nd), {"file", "name"})
    THEN ReturnedAst
    ELSE IF ~IsStr(Get(ParsedMetaOf(nd), "file"))
    THEN Rejected("TypeError", "The 'path' argument must be of type string")
    ELSE AwaitRender

\* transformParsedMermaidBlock with the name used as identifier as it is
transformParsedMermaidBlockNoLower(svgFile, mermaidNode) ==
    LET name == mermaidNode.parsedMeta.name
        alt == mermaidNode.parsedMeta.alt
    IN  <<[type |-> Str("imageReference"),
           identifier |-> name,
           label |-> name,
           referenceType |-> Str("shortcut"),
           alt |-> Coalesce(alt, name)],
          [type |-> Str("definition"),
           label |-> name,
           url |-> svgFile,
           title |-> alt,
           identifier |-> name]>>

\* transformParsedMermaidBlock giving the definition the fallback of the alt
\* as its title
transformParsedMermaidBlockTitled(svgFile, mermaidNode) ==
    LET name == mermaidNode.parsedMeta.name
        alt == mermaidNode.parsedMeta.alt
        identifier == Str(toLowerCase(name.v))
    IN  <<[type |-> Str("imageReference"),
           identifier |-> identifier,
           label |-> name,
           referenceType |-> Str("shortcut"),
           alt |-> Coalesce(alt, name)],
          [type |-> Str("definition"),
           label |-> name,
           url |-> svgFile,
           title |-> Coalesce(alt, name),
           identifier |-> identifier]>>

\* transformParsedMermaidBlock(imageFilePath, parsedMermaidBlock, others)
transformParsedMermaidBlock(svgFile, mermaidNode) ==
    LET name == mermaidNode.parsedMeta.name
        alt == mermaidNode.parsedMeta.alt
        identifier == Str(toLowerCase(name.v))
    IN  <<[type |-> Str("imageReference"),
           identifier |-> identifier,
           label |-> name,
           referenceType |-> Str("shortcut"),
           alt |-> Coalesce(alt, name)],
          [type |-> Str("definition"),
           label |-> name,
           url |-> svgFile,
           title |-> alt,
           identifier |-> identifier]>>

\* BlockResult handing on the path createRender returned
BlockResultFilepath(nd) ==
    LET pm == ParsedMetaOf(nd)
        parsedMermaidBlock ==
            [parsedMeta |-> [file |-> Get(pm, "file"),
                             name |-> Get(pm, "name"),
                             alt |-> Get(pm, "alt")],
             node |-> nd]
    IN  IF ~IsStr(parsedMermaidBlock.parsedMeta.name)
        THEN Rejected("TypeError", "Cannot read property 'toLowerCase'")
        ELSE ReturnedArray(
                 transformParsedMermaidBlock(Str(FilepathOf(nd)),
                                             parsedMermaidBlock))

\* BlockResult leaving the block in the tree, after its pair
BlockResultKeepBlock(nd) ==
    LET pm == ParsedMetaOf(nd)
        parsedMermaidBlock ==
            [parsedMeta |-> [file |-> Get(pm, "file"),
                             name |-> Get(pm, "name"),
                             alt |-> Get(pm, "alt")],
             node |-> nd]
    IN  IF ~IsStr(parsedMermaidBlock.parsedMeta.name)
        THEN Rejected("TypeError", "Cannot read property 'toLowerCase'")
        ELSE ReturnedArray(
                 Append(transformParsedMermaidBlock(
                            parsedMermaidBlock.parsedMeta.file,
                            parsedMermaidBlock),
                        nd))

\* transformMermaidBlock after createRender has returned: the block with
\* its parsedMeta is handed to transformParsedMermaidBlock together with
\* the file value of the annotation; name.toLowerCase throws on a name
\* that is not a string
BlockResult(nd) ==
    LET pm == ParsedMetaOf(nd)
        parsedMermaidBlock ==
            [parsedMeta |-> [file |-> Get(pm, "file"),
                             name |-> Get(pm, "name"),
                             alt |-> Get(pm, "alt")],
             node |-> nd]
    IN  IF ~IsStr(parsedMermaidBlock.parsedMeta.name)
        THEN Rejected("TypeError", "Cannot read property 'toLowerCase'")
        ELSE ReturnedArray(
                 transformParsedMermaidBlock(parsedMermaidBlock.parsedMeta.file,
                                             parsedMermaidBlock))

\* _transformer after the children of a have been dealt with
AfterChildren(a) ==
    IF ~has(a, TargetPattern) THEN ReturnedAst ELSE transformMermaidBlock(a)

\* the renderMermaid call of the block nd at path p
RenderCall(p, nd, b) ==
    [path |-> p, source |-> nd.value, browser |-> b]

(***************************************************************************)
(* Initial state: a configured plugin that has not been attached yet       *)
(***************************************************************************)
Init ==
    /\ entry \in Entries
    /\ options \in OptionSets
    /\ input \in Inputs
    /\ tree = input
    /\ browser = Undefined
    /\ launches = 0
    /\ top = [pc |-> "unattached"]
    /\ calls = [p \in Paths(input) |-> NotCalled]
    /\ renders = <<>>
    /\ writes = <<>>
    /\ messages = <<>>
    /\ docs = 1
    /\ rerun = FALSE
    /\ tokens = <<>>
    /\ separator = " "
    /\ haystack = EmptyObject
    /\ needle = EmptyObject
    /\ verdict = NotCalledYet
    /\ parsed = NotParsed

(***************************************************************************)
(* mermaidRender(options) / mermaidGuardless(options): the attacher        *)
(***************************************************************************)
\* attaching that launches an engine whatever the options hold
AttachAlwaysLaunch ==
    /\ top.pc = "unattached"
    /\ top' = [pc |-> "idle"]
    /\ browser' = LaunchedBrowser
    /\ launches' = launches + 1
    /\ UNCHANGED <<docs, rerun, parseVars, entry, options, input, tree, calls, renders, writes,
                   messages>>

\* const browser = options.browser ?? puppeteer.launch(...)
Attach ==
    /\ top.pc = "unattached"
    /\ top' = [pc |-> "idle"]
    /\ IF "browser" \in DOMAIN options
       THEN browser' = options.browser /\ launches' = launches
       ELSE browser' = LaunchedBrowser /\ launches' = launches + 1
    /\ UNCHANGED <<docs, rerun, parseVars, entry, options, input, tree, calls, renders, writes,
                   messages>>

\* the frames right after _transformer(ast, ...) has run up to its first
\* pending await: every node with children waits on Promise.all of its
\* children's calls, every other node has had its target test
FramesAtCall ==
    [p \in Paths(input) |->
        IF HasChildren(NodeAt(input, p)) THEN AwaitChildren
        ELSE AfterChildren(NodeAt(input, p))]

\* the render call of the first Target Block only: the others wait their
\* turn
RendersAtCallFirstOnly ==
    LET ps == SelectPaths(CallOrder(input, <<>>),
                          {p \in Paths(input) :
                               FramesAtCall[p].pc = "awaitRender"})
    IN  [i \in 1..(IF Len(ps) > 0 THEN 1 ELSE 0) |->
            RenderCall(ps[i], NodeAt(input, ps[i]), browser)]

\* the render calls of a traversal that comes by every Target Block twice
RendersAtCallTwice ==
    LET ps == SelectPaths(CallOrder(input, <<>>) \o CallOrder(input, <<>>),
                          {p \in Paths(input) :
                               FramesAtCall[p].pc = "awaitRender"})
    IN  [i \in 1..Len(ps) |-> RenderCall(ps[i], NodeAt(input, ps[i]), browser)]

\* the render calls issued while _transformer runs to its first pending
\* await, in the order of the calls
RendersAtCall ==
    LET ps == SelectPaths(CallOrder(input, <<>>),
                          {p \in Paths(input) :
                               FramesAtCall[p].pc = "awaitRender"})
    IN  [i \in 1..Len(ps) |-> RenderCall(ps[i], NodeAt(input, ps[i]), browser)]

\* the transformer returned by mermaidGuardless is called
StartTransformer ==
    /\ top' = [pc |-> "awaitTransformer"]
    /\ calls' = FramesAtCall
    /\ renders' = renders \o RendersAtCall
    /\ UNCHANGED <<docs, rerun, parseVars, entry, options, input, tree, browser, launches, writes,
                   messages>>

\* mustRoot letting every node through
mustRootAny(nd) == TRUE

\* mustRoot
mustRoot(nd) == StrictEq(Get(nd, "type"), Str("root"))

\* the transformer returned by mermaidRender is called on a root
mermaidRenderCall ==
    /\ top.pc = "idle"
    /\ input # Null
    /\ entry = "mermaidRender"
    /\ mustRoot(input)
    /\ StartTransformer

\* the transformer returned by mermaidRender is called on another node:
\* mustRoot throws before the inner transformer is called
mermaidRenderNotRoot ==
    /\ top.pc = "idle"
    /\ input # Null
    /\ entry = "mermaidRender"
    /\ ~mustRoot(input)
    /\ top' = [pc |-> "rejected",
               err |-> [name |-> "Error", message |-> "is not root"]]
    /\ UNCHANGED <<docs, rerun, parseVars, entry, options, input, tree, browser, launches, calls,
                   renders, writes, messages>>

mermaidGuardlessCall ==
    /\ top.pc = "idle"
    /\ input # Null
    /\ entry = "mermaidGuardless"
    /\ StartTransformer

(***************************************************************************)
(* createRender: the external render and the file write                    *)
(***************************************************************************)
\* renderMermaid resolves and the block's result is built at once, without
\* the write
renderMermaidResolveNoWrite(p) ==
    /\ calls[p].pc = "awaitRender"
    /\ calls' = [calls EXCEPT ![p] = BlockResult(NodeAt(tree, p))]
    /\ UNCHANGED <<docs, rerun, parseVars, entry, options, input, tree, browser, launches, top,
                   renders, writes, messages>>

\* renderMermaid resolves; writeFile is called with its output
renderMermaidResolve(p) ==
    /\ calls[p].pc = "awaitRender"
    /\ calls' = [calls EXCEPT ![p] = AwaitWrite]
    /\ UNCHANGED <<docs, rerun, parseVars, entry, options, input, tree, browser, launches, top,
                   renders, writes, messages>>

\* renderMermaid rejects: nothing catches it up to the caller of
\* _transformer on this block
renderMermaidReject(p) ==
    /\ calls[p].pc = "awaitRender"
    /\ calls' = [calls EXCEPT ![p] = Rejected("RenderError", "render failed")]
    /\ UNCHANGED <<docs, rerun, parseVars, entry, options, input, tree, browser, launches, top,
                   renders, writes, messages>>

\* writeFile skipped for a path that a write of this document has already
\* filled; the block's result is built all the same
writeFileResolveOnce(p) ==
    /\ calls[p].pc = "awaitWrite"
    /\ writes' =
          IF \E i \in 1..Len(writes) :
                 writes[i].filepath = FilepathOf(NodeAt(tree, p))
          THEN writes
          ELSE Append(writes,
                      [path |-> p,
                       filepath |-> FilepathOf(NodeAt(tree, p)),
                       data |-> Svg(NodeAt(tree, p).value),
                       settled |-> top.pc \in {"resolved", "rejected"}])
    /\ calls' = [calls EXCEPT ![p] = BlockResult(NodeAt(tree, p))]
    /\ UNCHANGED <<docs, rerun, parseVars, entry, options, input, tree, browser, launches, top,
                   renders, messages>>

\* the content of the file at path f after the writes completed so far:
\* writeFile replaces the file, so it is the data of the last of them
FileContent(f) ==
    LET last == CHOOSE i \in 1..Len(writes) :
                    /\ writes[i].filepath = f
                    /\ \A j \in 1..Len(writes) :
                          writes[j].filepath = f => j <= i
    IN  writes[last].data

\* writeFile completes; transformMermaidBlock builds its result.  The log
\* notes whether the top-level promise had settled by then.
writeFileResolve(p) ==
    /\ calls[p].pc = "awaitWrite"
    /\ writes' = Append(writes,
                        [path |-> p,
                         filepath |-> FilepathOf(NodeAt(tree, p)),
                         data |-> Svg(NodeAt(tree, p).value),
                         settled |-> top.pc \in {"resolved", "rejected"}])
    /\ calls' = [calls EXCEPT ![p] = BlockResult(NodeAt(tree, p))]
    /\ UNCHANGED <<docs, rerun, parseVars, entry, options, input, tree, browser, launches, top,
                   renders, messages>>

writeFileReject(p) ==
    /\ calls[p].pc = "awaitWrite"
    /\ calls' = [calls EXCEPT ![p] = Rejected("IOError", "write failed")]
    /\ UNCHANGED <<docs, rerun, parseVars, entry, options, input, tree, browser, launches, top,
                   renders, writes, messages>>

(***************************************************************************)
(* _transformer on a node with children                                    *)
(***************************************************************************)
ChildPaths(p) == {q \in DOMAIN calls : Len(q) = Len(p) + 1 /\ SubSeq(q, 1, Len(p)) = p}

\* position of the completed write of the call at path q in writes
WriteIndex(q) == CHOOSE i \in 1..Len(writes) : writes[i].path = q

\* Mapping handing out the returned arrays in the order their writes
\* completed instead of the order of the children
MappingByCompletion(p, i) ==
    LET f == calls[Append(p, i)]
        n == Len(NodeAt(tree, p).children)
        kids == {h \in 1..n :
                    \E w \in 1..Len(writes) : writes[w].path = Append(p, h)}
        rank == Cardinality({h \in kids : h <= i})
        j == CHOOSE h \in kids :
                 Cardinality({g \in kids :
                     WriteIndex(Append(p, g)) <= WriteIndex(Append(p, h))})
                   = rank
    IN  IF f.ret.isArray THEN calls[Append(p, j)].ret.items
        ELSE <<NodeAt(tree, Append(p, i))>>

\* Mapping keeping only the first node of a returned array
MappingFirstOnly(p, i) ==
    LET f == calls[Append(p, i)] IN
    IF f.ret.isArray THEN <<f.ret.items[1]>>
    ELSE <<NodeAt(tree, Append(p, i))>>

\* one entry of mappings: what the call on child i returned
Mapping(p, i) ==
    LET f == calls[Append(p, i)] IN
    IF f.ret.isArray THEN f.ret.items ELSE <<NodeAt(tree, Append(p, i))>>

\* Promise.all resolved and the node left as it was: the flattened results
\* are not assigned to a.children
childrenResolvedNoAssign(p) ==
    /\ calls[p].pc = "awaitChildren"
    /\ \A q \in ChildPaths(p) : calls[q].pc = "resolved"
    /\ LET a == NodeAt(tree, p)
       IN  /\ tree' = tree
           /\ calls' = [calls EXCEPT ![p] = AfterChildren(a)]
           /\ renders' = IF AfterChildren(a).pc = "awaitRender"
                         THEN Append(renders, RenderCall(p, a, browser))
                         ELSE renders
    /\ UNCHANGED <<docs, rerun, parseVars, entry, options, input, browser, launches, top, writes,
                   messages>>

\* children assigned as soon as no child has failed, without waiting for
\* the children still pending, which are kept as they are
childrenResolvedEarly(p) ==
    /\ calls[p].pc = "awaitChildren"
    /\ \A q \in ChildPaths(p) : calls[q].pc # "rejected"
    /\ LET n == Len(NodeAt(tree, p).children)
           flat == Flat([i \in 1..n |->
                      IF /\ calls[Append(p, i)].pc = "resolved"
                         /\ calls[Append(p, i)].ret.isArray
                      THEN calls[Append(p, i)].ret.items
                      ELSE <<NodeAt(tree, Append(p, i))>>])
           a == [NodeAt(tree, p) EXCEPT !.children = flat]
       IN  /\ tree' = AssignChildren(tree, p, flat)
           /\ calls' = [calls EXCEPT ![p] = AfterChildren(a)]
           /\ renders' = IF AfterChildren(a).pc = "awaitRender"
                         THEN Append(renders, RenderCall(p, a, browser))
                         ELSE renders
    /\ UNCHANGED <<docs, rerun, parseVars, entry, options, input, browser, launches, top, writes,
                   messages>>

\* Promise.all resolved: a.children = mappings.flat(), then the target test
childrenResolved(p) ==
    /\ calls[p].pc = "awaitChildren"
    /\ \A q \in ChildPaths(p) : calls[q].pc = "resolved"
    /\ LET n == Len(NodeAt(tree, p).children)
           flat == Flat([i \in 1..n |-> Mapping(p, i)])
           a == [NodeAt(tree, p) EXCEPT !.children = flat]
       IN  /\ tree' = AssignChildren(tree, p, flat)
           /\ calls' = [calls EXCEPT ![p] = AfterChildren(a)]
           /\ renders' = IF AfterChildren(a).pc = "awaitRender"
                         THEN Append(renders, RenderCall(p, a, browser))
                         ELSE renders
    /\ UNCHANGED <<docs, rerun, parseVars, entry, options, input, browser, launches, top, writes,
                   messages>>

\* Promise.all rejected, and the results of the children that have returned
\* assigned all the same before the call rejects
childrenRejectedAssign(p) ==
    /\ calls[p].pc = "awaitChildren"
    /\ \E q \in ChildPaths(p) :
          /\ calls[q].pc = "rejected"
          /\ calls' = [calls EXCEPT ![p] = calls[q]]
    /\ LET n == Len(NodeAt(tree, p).children)
           flat == Flat([i \in 1..n |->
                      IF /\ calls[Append(p, i)].pc = "resolved"
                         /\ calls[Append(p, i)].ret.isArray
                      THEN calls[Append(p, i)].ret.items
                      ELSE <<NodeAt(tree, Append(p, i))>>])
       IN  tree' = AssignChildren(tree, p, flat)
    /\ UNCHANGED <<docs, rerun, parseVars, entry, options, input, browser, launches, top,
                   renders, writes, messages>>

\* Promise.all rejected with the error of a rejected child: the await
\* throws and the call rejects without assigning children
childrenRejected(p) ==
    /\ calls[p].pc = "awaitChildren"
    /\ \E q \in ChildPaths(p) :
          /\ calls[q].pc = "rejected"
          /\ calls' = [calls EXCEPT ![p] = calls[q]]
    /\ UNCHANGED <<docs, rerun, parseVars, entry, options, input, tree, browser, launches, top,
                   renders, writes, messages>>

(***************************************************************************)
(* The async function returned by mermaidGuardless                         *)
(***************************************************************************)
\* transformerSettled returning whatever _transformer returned
transformerSettledUnchecked ==
    /\ top.pc = "awaitTransformer"
    /\ Settled(calls[<<>>])
    /\ top' = IF calls[<<>>].pc = "rejected"
              THEN [pc |-> "rejected", err |-> calls[<<>>].err]
              ELSE [pc |-> "resolved"]
    /\ UNCHANGED <<docs, rerun, parseVars, entry, options, input, tree, browser, launches, calls,
                   renders, writes, messages>>

\* the returned transformer going on only when _transformer resolved: a
\* rejection is never passed on
transformerSettledOnSuccess ==
    /\ top.pc = "awaitTransformer"
    /\ calls[<<>>].pc = "resolved"
    /\ top' = IF calls[<<>>].ret.isArray
              THEN [pc |-> "rejected",
                    err |-> [name |-> "Error",
                             message |-> "this should never happen"]]
              ELSE [pc |-> "resolved"]
    /\ UNCHANGED <<docs, rerun, parseVars, entry, options, input, tree, browser, launches, calls,
                   renders, writes, messages>>

\* resp = await _transformer(ast, ...) has settled
transformerSettled ==
    /\ top.pc = "awaitTransformer"
    /\ Settled(calls[<<>>])
    /\ top' = IF calls[<<>>].pc = "rejected"
              THEN [pc |-> "rejected", err |-> calls[<<>>].err]
              ELSE IF calls[<<>>].ret.isArray
              THEN [pc |-> "rejected",
                    err |-> [name |-> "Error",
                             message |-> "this should never happen"]]
              ELSE [pc |-> "resolved"]
    /\ UNCHANGED <<docs, rerun, parseVars, entry, options, input, tree, browser, launches, calls,
                   renders, writes, messages>>

\* no call of the current document is still under way
Quiescent ==
    \A p \in DOMAIN calls :
        calls[p].pc \notin {"awaitChildren", "awaitRender", "awaitWrite"}

\* the pipeline is done with the current document and lets go of its
\* tree; renders and writes log the calls made for the document at hand
ReleaseDocument ==
    /\ top.pc \in {"resolved", "rejected"}
    /\ Quiescent
    /\ docs < MaxDocs
    /\ top' = [pc |-> "idle"]
    /\ input' = Null
    /\ tree' = Null
    /\ calls' = [p \in {} |-> NotCalled]
    /\ renders' = <<>>
    /\ writes' = <<>>
    /\ rerun' = FALSE
    /\ UNCHANGED <<docs, parseVars, entry, options, browser, launches,
                   messages>>

\* the pipeline hands the attached transformer its next document
NextDocument ==
    /\ top.pc = "idle"
    /\ input = Null
    /\ docs' = docs + 1
    /\ rerun' = FALSE
    /\ \E d \in LaterInputs :
          /\ input' = d
          /\ tree' = d
          /\ calls' = [p \in Paths(d) |-> NotCalled]
    /\ UNCHANGED <<parseVars, entry, options, browser, launches, top,
                   renders, writes, messages>>

\* the pipeline runs the attached transformer again, on the tree the pass
\* before resolved with
RunAgain ==
    /\ top.pc = "resolved"
    /\ Quiescent
    /\ docs < MaxDocs
    /\ top' = [pc |-> "idle"]
    /\ docs' = docs + 1
    /\ rerun' = TRUE
    /\ input' = tree
    /\ calls' = [p \in Paths(tree) |-> NotCalled]
    /\ renders' = <<>>
    /\ writes' = <<>>
    /\ UNCHANGED <<parseVars, entry, options, tree, browser, launches,
                   messages>>

Next ==
    \/ Attach
    \/ ReleaseDocument
    \/ NextDocument
    \/ RunAgain
    \/ mermaidRenderCall
    \/ mermaidRenderNotRoot
    \/ mermaidGuardlessCall
    \/ \E p \in DOMAIN calls : renderMermaidResolve(p)
    \/ \E p \in DOMAIN calls : renderMermaidReject(p)
    \/ \E p \in DOMAIN calls : writeFileResolve(p)
    \/ \E p \in DOMAIN calls : writeFileReject(p)
    \/ \E p \in DOMAIN calls : childrenResolved(p)
    \/ \E p \in DOMAIN calls : childrenRejected(p)
    \/ transformerSettled

Spec == Init /\ [][Next]_vars

\* Every issued render and every started write settles, and the event loop
\* runs a continuation whose awaited promise has settled.
Fairness ==
    /\ WF_vars(\E p \in DOMAIN calls :
                  renderMermaidReject(p) \/ renderMermaidResolve(p))
    /\ WF_vars(\E p \in DOMAIN calls :
                  writeFileReject(p) \/ writeFileResolve(p))
    /\ WF_vars(\E p \in DOMAIN calls : childrenResolved(p))
    /\ WF_vars(\E p \in DOMAIN calls : childrenRejected(p))
    /\ WF_vars(transformerSettled)

FairSpec == Init /\ [][Next]_vars /\ Fairness

(***************************************************************************)
(* The annotation parser on its own                                        *)
(***************************************************************************)
ParseInit ==
    /\ tokens \in TokenSeqs
    /\ separator \in Separators
    /\ haystack = EmptyObject
    /\ needle = EmptyObject
    /\ verdict = NotCalledYet
    /\ parsed = NotParsed
    /\ entry = "mermaidGuardless"
    /\ options = EmptyObject
    /\ input = ExampleDoc
    /\ tree = input
    /\ browser = Undefined
    /\ launches = 0
    /\ top = [pc |-> "unattached"]
    /\ calls = [p \in Paths(input) |-> NotCalled]
    /\ renders = <<>>
    /\ writes = <<>>
    /\ messages = <<>>
    /\ docs = 1
    /\ rerun = FALSE

\* transformMermaidBlock parses the annotation nd.meta
parseAnnotation ==
    /\ ~parsed.done
    /\ parsed' = [done |-> TRUE,
                  meta |-> ParseMeta(JoinWith(tokens, separator))]
    /\ UNCHANGED <<rerun, haystack, needle, verdict, tokens, separator, entry, options, input, tree, browser, launches,
                   top, calls, renders, writes, messages, docs>>

ParseNext == parseAnnotation

ParseSpec == ParseInit /\ [][ParseNext]_vars

(***************************************************************************)
(* has on its own                                                          *)
(***************************************************************************)
HasInit ==
    /\ haystack \in Objects
    /\ needle \in Objects
    /\ verdict = NotCalledYet
    /\ tokens = <<>>
    /\ separator = " "
    /\ parsed = NotParsed
    /\ entry = "mermaidGuardless"
    /\ options = EmptyObject
    /\ input = ExampleDoc
    /\ tree = input
    /\ browser = Undefined
    /\ launches = 0
    /\ top = [pc |-> "unattached"]
    /\ calls = [p \in Paths(input) |-> NotCalled]
    /\ renders = <<>>
    /\ writes = <<>>
    /\ messages = <<>>
    /\ docs = 1
    /\ rerun = FALSE

\* has(haystack, needle)
hasCall ==
    /\ ~verdict.done
    /\ verdict' = [done |-> TRUE, value |-> has(haystack, needle)]
    /\ UNCHANGED <<rerun, haystack, needle, tokens, separator, parsed, entry,
                   options, input, tree, browser, launches, top, calls,
                   renders, writes, messages, docs>>

HasNext == hasCall

HasSpec == HasInit /\ [][HasNext]_vars

(***************************************************************************)
(* Vocabulary of the properties                                            *)
(***************************************************************************)
\* a code node whose sub-language is the diagram marker
IsMermaidCode(n) ==
    /\ {"type", "lang"} \subseteq DOMAIN n
    /\ n.type = Str("code")
    /\ n.lang = Str("mermaid")

Tokens(meta) == Split(meta, " ")

\* the key of a token: its text up to the first "="
KeyOf(tok) ==
    LET i == IndexFrom(tok, "=", 1) IN
    IF i = 0 THEN tok ELSE SubSeq(tok, 1, i - 1)

\* the annotation names the key k
HasKey(meta, k) ==
    \E i \in 1..Len(Tokens(meta)) : KeyOf(Tokens(meta)[i]) = k

\* the annotation gives the key k a value, in every token that names it
HasValue(meta, k) ==
    /\ HasKey(meta, k)
    /\ \A i \in 1..Len(Tokens(meta)) :
          KeyOf(Tokens(meta)[i]) = k => IndexFrom(Tokens(meta)[i], "=", 1) # 0

\* the value the annotation gives the key k: the text after the "=" of the
\* token that names k (the annotations of the inputs name no key twice)
ValueOf(meta, k) ==
    LET tok == Tokens(meta)[CHOOSE i \in 1..Len(Tokens(meta)) :
                                KeyOf(Tokens(meta)[i]) = k]
    IN  SubSeq(tok, IndexFrom(tok, "=", 1) + 1, Len(tok))

\* a Target Block with valid metadata
ValidTarget(n) ==
    /\ IsMermaidCode(n)
    /\ "meta" \in DOMAIN n
    /\ IsStr(n.meta)
    /\ HasValue(n.meta.v, "file")
    /\ HasValue(n.meta.v, "name")

\* a Target Block whose annotation string lacks the file or the name key
SkippedBlock(n) ==
    /\ IsMermaidCode(n)
    /\ "meta" \in DOMAIN n
    /\ IsStr(n.meta)
    /\ ~(HasKey(n.meta.v, "file") /\ HasKey(n.meta.v, "name"))

IsType(n, type) == "type" \in DOMAIN n /\ n.type = Str(type)

\* the position in the rewritten children of what child i of n became
OutPos(n, i) ==
    i + Cardinality({h \in 1..(i - 1) : ValidTarget(n.children[h])})

NumValid(n) ==
    Cardinality({h \in 1..Len(n.children) : ValidTarget(n.children[h])})

RenderedPaths == {renders[i].path : i \in 1..Len(renders)}

WrittenPaths == {writes[i].path : i \in 1..Len(writes)}

ParentPath(p) == SubSeq(p, 1, Len(p) - 1)

\* the path p still leads, in tree, to the node it led to in input
PathStable(p) ==
    \A k \in 0..(Len(p) - 1) : calls[SubSeq(p, 1, k)].pc = "awaitChildren"

\* the children of the node at p have been assigned and p can be followed
Rewritten(p) ==
    /\ calls[p].pc = "resolved"
    /\ PathStable(p)

(***************************************************************************)
(* C1  Order preservation.  When the transformation of a document has      *)
(* succeeded, every container that had N children of which k were valid    *)
(* Target Blocks has N+k children: a valid Target Block that was at        *)
(* position i has become an imageReference followed by a definition        *)
(* labelled with its name, at the two positions that i has shifted to, and *)
(* every other child is at its shifted position, itself rewritten the      *)
(* same way and otherwise unchanged.                                       *)
(***************************************************************************)
RECURSIVE OrderPreserved(_, _)
OrderPreserved(in, out) ==
    IF ~HasChildren(in) THEN out = in
    ELSE
        /\ HasChildren(out)
        /\ [out EXCEPT !.children = <<>>] = [in EXCEPT !.children = <<>>]
        /\ Len(out.children) = Len(in.children) + NumValid(in)
        /\ \A i \in 1..Len(in.children) :
              LET c == in.children[i]
                  j == OutPos(in, i)
              IN  IF ValidTarget(c)
                  THEN /\ IsType(out.children[j], "imageReference")
                       /\ IsType(out.children[j + 1], "definition")
                       /\ out.children[j].label
                              = Str(ValueOf(c.meta.v, "name"))
                       /\ out.children[j + 1].label
                              = Str(ValueOf(c.meta.v, "name"))
                  ELSE OrderPreserved(c, out.children[j])

C1_OrderPreservation ==
    top.pc = "resolved" => OrderPreserved(input, tree)

\* the document of the test corpus has been transformed: one valid Target
\* Block at position 2 of 3, between two paragraphs
C1_Witness ==
    /\ top.pc = "resolved"
    /\ input = ExampleDoc
    /\ Len(tree.children) = 4
    /\ IsType(tree.children[2], "imageReference")
    /\ tree.children[4] = input.children[3]
\* child i of the node at parent path q is, unchanged, at its shifted
\* position among the assigned children
KeptInPlace(p) ==
    LET q == ParentPath(p) IN
    NodeAt(tree, q).children[OutPos(NodeAt(input, q), p[Len(p)])]
        = NodeAt(input, p)

TopSettled == top.pc \in {"resolved", "rejected"}

(***************************************************************************)
(* C2  A mermaid code block whose annotation string lacks the file key or  *)
(* the name key is skipped: its call returns the node itself and never     *)
(* rejects, no render is issued and no file written for it, once its       *)
(* parent's children are assigned it is unchanged at its position, and a   *)
(* document whose only mermaid block omits name comes out unchanged.       *)
(***************************************************************************)
C2_SkippedUnchanged ==
    /\ \A p \in DOMAIN calls :
          SkippedBlock(NodeAt(input, p)) =>
              /\ calls[p] \in {NotCalled, ReturnedAst}
              /\ p \notin RenderedPaths \cup WrittenPaths
              /\ (p # <<>> /\ Rewritten(ParentPath(p))) => KeptInPlace(p)
              /\ (p = <<>> /\ entry = "mermaidGuardless" /\ TopSettled)
                     => (top.pc = "resolved" /\ tree = input)
    /\ (input = ExampleDocNoName /\ TopSettled) =>
          /\ top.pc = "resolved"
          /\ tree = input
          /\ renders = <<>>
          /\ writes = <<>>

\* the failure-path document has been transformed
C2_Witness ==
    /\ input = ExampleDocNoName
    /\ top.pc = "resolved"
    /\ SkippedBlock(input.children[2])
    /\ calls[<<2>>] = ReturnedAst

(***************************************************************************)
(* C3  A mermaid code block with an empty annotation, a null annotation or *)
(* no annotation at all is skipped: its call returns the node itself and   *)
(* never raises.                                                           *)
(***************************************************************************)
NoAnnotation(n) ==
    /\ IsMermaidCode(n)
    /\ \/ "meta" \notin DOMAIN n
       \/ n.meta \in {Null, Undefined, Str("")}

C3_NoAnnotationSkipped ==
    \A p \in DOMAIN calls :
        NoAnnotation(NodeAt(input, p)) => calls[p] \in {NotCalled, ReturnedAst}

(***************************************************************************)
(* C4  The call on a Target Block with valid metadata, when it resolves,   *)
(* returns exactly two nodes, an imageReference then a definition, whose   *)
(* identifiers are equal and are the lower-cased name, and whose labels    *)
(* are the name in its original case.                                      *)
(***************************************************************************)
C4_ReplacementPair ==
    \A p \in DOMAIN calls :
        (ValidTarget(NodeAt(input, p)) /\ calls[p].pc = "resolved") =>
            LET r == calls[p].ret
                name == ValueOf(NodeAt(input, p).meta.v, "name")
            IN  /\ r.isArray
                /\ Len(r.items) = 2
                /\ IsType(r.items[1], "imageReference")
                /\ IsType(r.items[2], "definition")
                /\ r.items[1].identifier = r.items[2].identifier
                /\ r.items[1].identifier = Str(toLowerCase(name))
                /\ name = "Example_Diagram"
                       => r.items[1].identifier = Str("example_diagram")
                /\ r.items[1].label = Str(name)
                /\ r.items[2].label = Str(name)

\* a pair has been returned for a name with upper-case letters
C4_Witness ==
    \E p \in DOMAIN calls :
        /\ ValidTarget(NodeAt(input, p))
        /\ calls[p].pc = "resolved"
        /\ calls[p].ret.isArray
        /\ calls[p].ret.items[1].label = Str("Example_Diagram")
        /\ calls[p].ret.items[1].identifier # calls[p].ret.items[1].label

(***************************************************************************)
(* C5  The document of the end-to-end scenario comes out as paragraph,     *)
(* imageReference (identifier example_diagram), definition (identifier     *)
(* example_diagram, url example.svg), paragraph; and the url of every      *)
(* definition returned is the file value as written in the annotation.     *)
(***************************************************************************)
C5_EndToEnd ==
    /\ (input = ExampleDoc /\ top.pc = "resolved") =>
          /\ Len(tree.children) = 4
          /\ tree.children[1] = Paragraph("Hello world!")
          /\ IsType(tree.children[2], "imageReference")
          /\ tree.children[2].identifier = Str("example_diagram")
          /\ IsType(tree.children[3], "definition")
          /\ tree.children[3].identifier = Str("example_diagram")
          /\ tree.children[3].url = Str("example.svg")
          /\ tree.children[4] = Paragraph("World, hello!")
    /\ \A p \in DOMAIN calls :
          (ValidTarget(NodeAt(input, p)) /\ calls[p].pc = "resolved") =>
              calls[p].ret.items[2].url
                  = Str(ValueOf(NodeAt(input, p).meta.v, "file"))

C5_Witness ==
    /\ input = ExampleDoc
    /\ top.pc = "resolved"
    /\ tree.children[3].url = Str("example.svg")

(***************************************************************************)
(* C6  As stated: the url of the definition is the resolved artifact path, *)
(* the path the artifact of its block was written to.                      *)
(***************************************************************************)
C6_UrlIsResolvedPath ==
    \A i \in 1..Len(writes) :
        calls[writes[i].path].pc = "resolved" =>
            calls[writes[i].path].ret.items[2].url = Str(writes[i].filepath)

IsAbsolute(f) == SubSeq(f, 1, 1) = "/"

(***************************************************************************)
(* C6  As amended: the artifact is written to the working directory of     *)
(* the VFile joined with the declared file, while the url of the           *)
(* definition is the declared file as written; the two are the same        *)
(* string only when the declared file is an absolute path.                 *)
(***************************************************************************)
C6_UrlIsDeclaredFile ==
    \A i \in 1..Len(writes) :
        LET p == writes[i].path
            declared == ValueOf(NodeAt(input, p).meta.v, "file")
        IN  /\ writes[i].filepath =
                   (IF IsAbsolute(declared) THEN declared
                    ELSE VFileCwd \o "/" \o declared)
            /\ calls[p].pc = "resolved" =>
                  /\ calls[p].ret.items[2].url = Str(declared)
                  /\ (calls[p].ret.items[2].url = Str(writes[i].filepath))
                         <=> IsAbsolute(declared)

\* a pair has been returned whose url differs from the path written to
C6_Witness ==
    \E i \in 1..Len(writes) :
        /\ calls[writes[i].path].pc = "resolved"
        /\ writes[i].filepath = "/work/example.svg"
        /\ calls[writes[i].path].ret.items[2].url = Str("example.svg")

(***************************************************************************)
(* C7  When the render or the write of one Target Block has failed, the    *)
(* top-level transformation does not raise that failure, and once it has   *)
(* settled a diagnostic is attached to the document.                       *)
(***************************************************************************)
FailedBlocks ==
    {p \in DOMAIN calls :
        /\ ~HasChildren(NodeAt(input, p))
        /\ calls[p].pc = "rejected"
        /\ calls[p].err.name \in {"RenderError", "IOError"}}

C7_FailureHandledAtBlock ==
    \A p \in FailedBlocks :
        /\ top.pc = "rejected" => top.err # calls[p].err
        /\ TopSettled => (top.pc = "resolved" /\ messages # <<>>)

(***************************************************************************)
(* C8  mermaidRender on a node that is not a root rejects with the         *)
(* structural error of mustRoot before any call of _transformer, render    *)
(* or write; on a root, when it resolves, it returns that root, and it     *)
(* never raises the structural error.                                      *)
(***************************************************************************)
C8_NonRootRejected ==
    /\ (entry = "mermaidRender" /\ ~IsType(input, "root")
            /\ top.pc \notin {"unattached", "idle"}) =>
          /\ top.pc = "rejected"
          /\ top.err = [name |-> "Error", message |-> "is not root"]
          /\ \A p \in DOMAIN calls : calls[p] = NotCalled
          /\ renders = <<>>
          /\ writes = <<>>
          /\ tree = input
    /\ (entry = "mermaidRender" /\ IsType(input, "root")) =>
          /\ top.pc = "resolved" =>
                (calls[<<>>] = ReturnedAst /\ IsType(tree, "root"))
          /\ top.pc = "rejected" => top.err.message # "is not root"

\* mermaidRender was run on a valid Target Block and has rejected
C8_Witness ==
    /\ entry = "mermaidRender"
    /\ ValidTarget(input)
    /\ top.pc = "rejected"

(***************************************************************************)
(* C9  The top level never resolves with an array: when _transformer       *)
(* returns an array for the node handed in, the entry point rejects with   *)
(* an error; and a root is never replaced by an array.                     *)
(***************************************************************************)
RootReturnedArray ==
    /\ calls[<<>>].pc = "resolved"
    /\ calls[<<>>].ret.isArray

C9_NoArrayAtTop ==
    /\ top.pc = "resolved" => (calls[<<>>].pc = "resolved" /\ ~RootReturnedArray)
    /\ (TopSettled /\ RootReturnedArray) =>
          /\ top.pc = "rejected"
          /\ top.err.message = "this should never happen"
    /\ IsType(input, "root") => ~RootReturnedArray

\* mermaidGuardless was run on a valid Target Block, whose pair came back
C9_Witness ==
    /\ entry = "mermaidGuardless"
    /\ ValidTarget(input)
    /\ RootReturnedArray
    /\ top.pc = "rejected"

(***************************************************************************)
(* C10  A node that is not a code node with lang exactly mermaid is never  *)
(* a candidate, whatever its annotation: no render is issued and no file   *)
(* written for it, its call returns the node itself, and once its          *)
(* parent's children are assigned a childless such node is unchanged at    *)
(* its position.                                                           *)
(***************************************************************************)
C10_OnlyMermaidCode ==
    \A p \in DOMAIN calls :
        ~IsMermaidCode(NodeAt(input, p)) =>
            /\ p \notin RenderedPaths \cup WrittenPaths
            /\ calls[p].pc = "resolved" => calls[p] = ReturnedAst
            /\ ~HasChildren(NodeAt(input, p)) =>
                  /\ calls[p] \in {NotCalled, ReturnedAst}
                  /\ (p # <<>> /\ Rewritten(ParentPath(p))) => KeptInPlace(p)

\* a code block of another sub-language with a complete annotation has
\* stayed in place next to a Target Block that was replaced
C10_Witness ==
    \E p \in DOMAIN calls :
        /\ p # <<>>
        /\ IsType(NodeAt(input, p), "code")
        /\ ~IsMermaidCode(NodeAt(input, p))
        /\ HasValue(NodeAt(input, p).meta.v, "file")
        /\ HasValue(NodeAt(input, p).meta.v, "name")
        /\ Rewritten(ParentPath(p))
        /\ NumValid(NodeAt(input, ParentPath(p))) > 0
        /\ KeptInPlace(p)

\* p comes before q in document order (depth first, left to right)
RECURSIVE PathBefore(_, _)
PathBefore(p, q) ==
    IF p = <<>> THEN q # <<>>
    ELSE IF q = <<>> THEN FALSE
    ELSE IF Head(p) # Head(q) THEN Head(p) < Head(q)
    ELSE PathBefore(Tail(p), Tail(q))

\* the Replacement Pair of a valid Target Block, from its annotation
ExpectedPair(c) ==
    LET name == Str(ValueOf(c.meta.v, "name"))
        alt == IF HasKey(c.meta.v, "alt")
               THEN Str(ValueOf(c.meta.v, "alt")) ELSE Undefined
    IN  <<[type |-> Str("imageReference"),
           identifier |-> Str(toLowerCase(name.v)),
           label |-> name,
           referenceType |-> Str("shortcut"),
           alt |-> IF alt = Undefined THEN name ELSE alt],
          [type |-> Str("definition"),
           label |-> name,
           url |-> Str(ValueOf(c.meta.v, "file")),
           title |-> alt,
           identifier |-> Str(toLowerCase(name.v))]>>

\* the tree a document is to become: every valid Target Block replaced in
\* place by its pair, in source order
RECURSIVE ExpectedTree(_)
ExpectedTree(n) ==
    IF ~HasChildren(n) THEN n
    ELSE [n EXCEPT !.children =
             Flat([i \in 1..Len(n.children) |->
                      IF ValidTarget(n.children[i])
                      THEN ExpectedPair(n.children[i])
                      ELSE <<ExpectedTree(n.children[i])>>])]

ValidPaths == {p \in DOMAIN calls : ValidTarget(NodeAt(input, p))}

(***************************************************************************)
(* C11  Whatever the order in which the renders and writes of a document   *)
(* complete, when its transformation has succeeded every valid Target      *)
(* Block has been rendered and written and the tree is the one determined  *)
(* by the document alone, with every pair at the position of its block.    *)
(***************************************************************************)
C11_CompletionOrderIrrelevant ==
    top.pc = "resolved" =>
        /\ tree = ExpectedTree(input)
        /\ ValidPaths \subseteq RenderedPaths
        /\ ValidPaths \subseteq WrittenPaths

\* two Target Blocks of one parent completed in the reverse of their source
\* order, and the transformation has succeeded
C11_Witness ==
    /\ top.pc = "resolved"
    /\ \E i, j \in 1..Len(writes) :
          /\ i < j
          /\ Len(writes[i].path) = Len(writes[j].path)
          /\ ParentPath(writes[i].path) = ParentPath(writes[j].path)
          /\ PathBefore(writes[j].path, writes[i].path)

\* mdast content model: the node types of each content category
BlockContent ==
    {"paragraph", "heading", "thematicBreak", "blockquote", "list", "table",
     "html", "code"}

TopLevelContent == BlockContent \cup {"yaml", "definition", "footnoteDefinition"}

StaticPhrasingContent ==
    {"text", "emphasis", "strong", "delete", "html", "inlineCode", "break",
     "image", "imageReference", "footnote", "footnoteReference"}

PhrasingContent == StaticPhrasingContent \cup {"link", "linkReference"}

Content ==
    TopLevelContent \cup {"listItem", "tableRow", "tableCell"}
        \cup PhrasingContent

\* the node types the children of a container of the given type may have
PermittedChildren(type) ==
    CASE type = "paragraph" -> PhrasingContent
      [] type = "blockquote" -> BlockContent
      [] OTHER -> Content

\* every container of n holds only children its content model permits
RECURSIVE StructurallyValid(_)
StructurallyValid(n) ==
    HasChildren(n) =>
        \A i \in 1..Len(n.children) :
            /\ n.children[i].type.v \in PermittedChildren(n.type.v)
            /\ StructurallyValid(n.children[i])

(***************************************************************************)
(* C12  After a successful transformation every container's children are   *)
(* of a type the content model permits in that position.  The code does    *)
(* not keep this: a Target Block inside a blockquote is replaced by an     *)
(* imageReference and a definition, neither of which is block content.     *)
(***************************************************************************)
C12_StructurallyValid ==
    top.pc = "resolved" => StructurallyValid(tree)

\* the render of the valid Target Block at path p has not completed
RenderPending(p) == p \in ValidPaths /\ calls[p].pc = "awaitRender"

(***************************************************************************)
(* C13  While the render of a valid Target Block has not completed, the    *)
(* transformation of the document has neither resolved nor rejected.  The  *)
(* code does not keep this: the failure of another block rejects the       *)
(* whole transformation at once, with the render still pending.            *)
(***************************************************************************)
C13_PendingRenderStalls ==
    (\E p \in DOMAIN calls : RenderPending(p)) => ~TopSettled

(***************************************************************************)
(* C14  When the options supply an engine handle, no engine is ever        *)
(* launched, the handle the transformer holds stays the supplied one, and  *)
(* every render call of every document is given that same handle.          *)
(***************************************************************************)
C14_SuppliedBrowserReused ==
    "browser" \in DOMAIN options =>
        /\ launches = 0
        /\ top.pc # "unattached" => browser = options.browser
        /\ \A i \in 1..Len(renders) : renders[i].browser = options.browser

\* with a supplied handle, the second document of one transformer has
\* issued the render of a Target Block
C14_Witness ==
    /\ "browser" \in DOMAIN options
    /\ docs = 2
    /\ Len(renders) >= 1
    /\ top.pc = "resolved"

\* the marker a caller has configured, mermaid when none is
ConfiguredMarker ==
    IF "marker" \in DOMAIN options THEN options.marker ELSE Str("mermaid")

\* n is a code block tagged with the sub-language mk
TaggedWith(n, mk) ==
    /\ {"type", "lang"} \subseteq DOMAIN n
    /\ n.type = Str("code")
    /\ n.lang = mk

(***************************************************************************)
(* C15 as stated: the blocks that are rendered are the code blocks tagged  *)
(* with the configured marker, mermaid by default.                         *)
(***************************************************************************)
C15_MarkerConfigurable ==
    \A i \in 1..Len(renders) :
        TaggedWith(NodeAt(input, renders[i].path), ConfiguredMarker)

(***************************************************************************)
(* C15  The marker is fixed: whatever the options hold, a marker entry     *)
(* included, only code blocks tagged mermaid are rendered, every valid     *)
(* mermaid block that has been called has its render issued, and a block   *)
(* tagged with another configured marker is returned as it is with no      *)
(* render and no write.                                                    *)
(***************************************************************************)
C15_MarkerFixed ==
    /\ \A i \in 1..Len(renders) :
          TaggedWith(NodeAt(input, renders[i].path), Str("mermaid"))
    /\ \A p \in DOMAIN calls :
          (ValidTarget(NodeAt(input, p)) /\ calls[p] # NotCalled)
              => p \in RenderedPaths
    /\ \A p \in DOMAIN calls :
          (/\ ConfiguredMarker # Str("mermaid")
           /\ TaggedWith(NodeAt(input, p), ConfiguredMarker))
              => /\ p \notin RenderedPaths \cup WrittenPaths
                 /\ calls[p] \in {NotCalled, ReturnedAst}

\* with another marker configured, a block tagged with it and carrying a
\* complete annotation was returned as it is, while a mermaid block of the
\* same document was rendered and written
C15_Witness ==
    /\ ConfiguredMarker = Str(OtherMarker)
    /\ top.pc = "resolved"
    /\ \E p, q \in DOMAIN calls :
          /\ TaggedWith(NodeAt(input, p), ConfiguredMarker)
          /\ HasValue(NodeAt(input, p).meta.v, "file")
          /\ HasValue(NodeAt(input, p).meta.v, "name")
          /\ calls[p] = ReturnedAst
          /\ ValidTarget(NodeAt(input, q))
          /\ q \in RenderedPaths \cap WrittenPaths

(***************************************************************************)
(* C16  The artifact of a valid Target Block is written at the directory   *)
(* of the containing document joined with the declared file, and its       *)
(* render is given the raw value of the block as diagram source.  The code *)
(* does not keep the first part: it joins the working directory of the     *)
(* VFile, not the directory of the document.                               *)
(***************************************************************************)
C16_WrittenInDocumentDirectory ==
    /\ \A i \in 1..Len(writes) :
          LET n == NodeAt(input, writes[i].path) IN
          ValidTarget(n) =>
              writes[i].filepath
                  = resolve(VFileDirname, ValueOf(n.meta.v, "file"))
    /\ \A i \in 1..Len(renders) :
          LET n == NodeAt(input, renders[i].path) IN
          ValidTarget(n) => renders[i].source = n.value

\* how many render calls were issued, and how many writes completed, for
\* the node at path p
NumRenders(p) == Cardinality({i \in 1..Len(renders) : renders[i].path = p})

NumWrites(p) == Cardinality({i \in 1..Len(writes) : writes[i].path = p})

\* a node that is no transformation candidate: not a mermaid code block, or
\* one whose annotation is absent or names no file or no name
NotCandidate(n) == ~IsMermaidCode(n) \/ SkippedBlock(n) \/ NoAnnotation(n)

(***************************************************************************)
(* C17  One pass calls the transformer on every node of the tree exactly   *)
(* once.  A valid Target Block has exactly one render issued once it has   *)
(* been visited, never a second one, and exactly one artifact written once *)
(* its call has returned; a node that is no candidate has no render and no *)
(* write.                                                                  *)
(***************************************************************************)
C17_OncePerBlock ==
    /\ input # Null =>
          LET order == CallOrder(input, <<>>) IN
          /\ Len(order) = Cardinality(Paths(input))
          /\ {order[i] : i \in 1..Len(order)} = Paths(input)
    /\ \A p \in DOMAIN calls :
          LET n == NodeAt(input, p) IN
          /\ NumRenders(p) <= 1
          /\ NumWrites(p) <= NumRenders(p)
          /\ (ValidTarget(n) /\ calls[p] # NotCalled) => NumRenders(p) = 1
          /\ (ValidTarget(n) /\ calls[p].pc = "resolved") => NumWrites(p) = 1
          /\ NotCandidate(n) => NumRenders(p) = 0 /\ NumWrites(p) = 0

\* a successful pass over a document with a Target Block at the top level
\* and one nested in a container, each rendered and written once, next to
\* a node that is no candidate
C17_Witness ==
    /\ top.pc = "resolved"
    /\ \E p, q, r \in DOMAIN calls :
          /\ Len(p) = 1 /\ Len(q) = 2
          /\ ValidTarget(NodeAt(input, p)) /\ ValidTarget(NodeAt(input, q))
          /\ NumRenders(p) = 1 /\ NumWrites(p) = 1
          /\ NumRenders(q) = 1 /\ NumWrites(q) = 1
          /\ r # <<>> /\ NotCandidate(NodeAt(input, r))
          /\ NumRenders(r) = 0

\* q lies strictly below p
Below(p, q) == Len(q) > Len(p) /\ SubSeq(q, 1, Len(p)) = p

\* no container from the root down to p has had its children assigned
NothingAssignedTo(p) ==
    \A k \in 0..Len(p) :
        calls[SubSeq(p, 1, k)].pc \in {"awaitChildren", "rejected"}

\* the children array of the node at p is still the one of the input:
\* as many children, each of the type it had
ChildrenAsInput(p) ==
    LET now == NodeAt(tree, p).children
        was == NodeAt(input, p).children
    IN  /\ Len(now) = Len(was)
        /\ \A i \in 1..Len(was) : now[i].type = was[i].type

(***************************************************************************)
(* C18  Data flows bottom-up.  A container whose call is past the await of *)
(* its children, so that its children array has been assigned and its own  *)
(* target test made, has every call below it returned and every render     *)
(* below it answered by a completed write; and as long as a container      *)
(* still waits for its children its children array is the one it had.      *)
(***************************************************************************)
C18_BottomUp ==
    \A p \in DOMAIN calls :
        HasChildren(NodeAt(input, p)) =>
            /\ calls[p].pc \notin {"notCalled", "awaitChildren", "rejected"} =>
                  \A q \in DOMAIN calls :
                      Below(p, q) =>
                          /\ calls[q].pc = "resolved"
                          /\ NumWrites(q) = NumRenders(q)
            /\ (calls[p].pc = "awaitChildren" /\ NothingAssignedTo(p)) =>
                  ChildrenAsInput(p)

\* the blockquote of a document has had its children assigned, with the
\* Target Block inside it rendered and written, while the root still waits
\* for another child and still has the children it had
C18_Witness ==
    \E p, q, r \in DOMAIN calls :
        /\ Len(p) = 1 /\ Below(p, q) /\ Len(r) = 1 /\ r # p
        /\ HasChildren(NodeAt(input, p))
        /\ calls[p].pc = "resolved"
        /\ ValidTarget(NodeAt(input, q)) /\ NumWrites(q) = 1
        /\ calls[<<>>].pc = "awaitChildren"
        /\ calls[r].pc = "awaitRender"
        /\ ChildrenAsInput(<<>>)

(***************************************************************************)
(* C19  Renders are not serialized.  From the moment the transformer has   *)
(* been called on a document the render of every valid Target Block of the *)
(* document has been issued, before any render result is there, and the    *)
(* renders were issued in document order, depth first and left to right.   *)
(***************************************************************************)
C19_RendersNotSerialized ==
    (input # Null /\ calls[<<>>] # NotCalled) =>
        /\ ValidPaths \subseteq RenderedPaths
        /\ \A i, j \in 1..Len(renders) :
              i < j => PathBefore(renders[i].path, renders[j].path)

\* the renders of all valid Target Blocks of a document are pending at the
\* same time, one of a top-level block and one of a block nested in a
\* container
C19_Witness ==
    /\ \A p \in ValidPaths : calls[p].pc = "awaitRender"
    /\ \E p, q \in ValidPaths :
          /\ Len(p) # Len(q)
          /\ ParentPath(p) # ParentPath(q)
    /\ Len(writes) = 0

\* the keys the tokens ts name
KeysOf(ts) == {KeyOf(ts[i]) : i \in 1..Len(ts)}

\* no two tokens of ts name the same key
NoDuplicateKeys(ts) ==
    \A i, j \in 1..Len(ts) : KeyOf(ts[i]) = KeyOf(ts[j]) => i = j

\* the tokens ts in every order
Reorderings(ts) ==
    {[i \in 1..Len(ts) |-> ts[f[i]]] : f \in Permutations(1..Len(ts))}

\* the value of the last token of ts that names the key k
LastValueOf(ts, k) ==
    LET i == CHOOSE h \in 1..Len(ts) :
                 /\ KeyOf(ts[h]) = k
                 /\ \A g \in 1..Len(ts) : KeyOf(ts[g]) = k => g <= h
    IN  SubSeq(ts[i], IndexFrom(ts[i], "=", 1) + 1, Len(ts[i]))

(***************************************************************************)
(* C20  The record parsed from an annotation without duplicate keys is the *)
(* same for every order of its tokens, and a key named by several tokens   *)
(* gets the value of the last of them.  The code does not keep the second  *)
(* part: the reduce spreads the accumulated record over the new entry, so  *)
(* the first occurrence of a key wins.                                     *)
(***************************************************************************)
C20_LastKeyWins ==
    (/\ parsed.done
     /\ separator = " "
     /\ \A i \in 1..Len(tokens) : Len(Split(tokens[i], "=")) = 2) =>
        /\ NoDuplicateKeys(tokens) =>
              \A ts \in Reorderings(tokens) :
                  ParseMeta(JoinTokens(ts)) = parsed.meta
        /\ DOMAIN parsed.meta = KeysOf(tokens)
        /\ \A k \in KeysOf(tokens) :
              parsed.meta[k] = Str(LastValueOf(tokens, k))

\* the text of the token tok after its first "="
AfterFirstEq(tok) == SubSeq(tok, IndexFrom(tok, "=", 1) + 1, Len(tok))

(***************************************************************************)
(* C21  Of an annotation whose tokens name no key twice, whatever the      *)
(* whitespace between them, the parsed record holds exactly the keys of    *)
(* the tokens, each with the whole text after the first = of its token.    *)
(* The code does not keep this: split("=") cuts the value at its next =,   *)
(* and split(" ") takes a tab for part of a token and a second space for   *)
(* an empty token.                                                         *)
(***************************************************************************)
C21_FirstEqAnyWhitespace ==
    (parsed.done /\ NoDuplicateKeys(tokens)) =>
        /\ DOMAIN parsed.meta = KeysOf(tokens)
        /\ \A i \in 1..Len(tokens) :
              parsed.meta[KeyOf(tokens[i])] = Str(AfterFirstEq(tokens[i]))

\* the call on the valid Target Block at p has returned its pair
PairReturned(p) ==
    /\ ValidTarget(NodeAt(input, p))
    /\ calls[p].pc = "resolved"
    /\ calls[p].ret.isArray

(***************************************************************************)
(* C22  In every pair returned for a valid Target Block the alt of the     *)
(* imageReference is the alt of the annotation when it gives one and the   *)
(* name otherwise, the title of the definition is the alt of the           *)
(* annotation and undefined when it gives none, and the reference type of  *)
(* the imageReference is shortcut.                                         *)
(***************************************************************************)
C22_AltAndTitle ==
    \A p \in DOMAIN calls :
        PairReturned(p) =>
            LET meta == NodeAt(input, p).meta.v
                ref == calls[p].ret.items[1]
                def == calls[p].ret.items[2]
            IN  /\ ref.referenceType = Str("shortcut")
                /\ HasValue(meta, "alt") =>
                      /\ ref.alt = Str(ValueOf(meta, "alt"))
                      /\ def.title = Str(ValueOf(meta, "alt"))
                /\ ~HasKey(meta, "alt") =>
                      /\ ref.alt = Str(ValueOf(meta, "name"))
                      /\ def.title = Undefined

\* one document has had a pair returned for a block whose annotation gives
\* an alt and one for a block whose annotation gives none
C22_Witness ==
    \E p, q \in DOMAIN calls :
        /\ PairReturned(p) /\ PairReturned(q)
        /\ HasValue(NodeAt(input, p).meta.v, "alt")
        /\ ~HasKey(NodeAt(input, q).meta.v, "alt")
        /\ top.pc = "resolved"

\* a and b are values of the same type and the same value
SameTypeAndValue(a, b) ==
    /\ a.t = b.t
    /\ a.t \in {"null", "undefined"} \/ a.v = b.v

\* what reading the property k of the object o yields
PropertyOf(o, k) == IF k \in DOMAIN o THEN o[k] ELSE Undefined

(***************************************************************************)
(* C23  has(v1, v2) returns true exactly when every key of v2 has in v1 a  *)
(* value of the same type and the same value as in v2: keys of v1 that v2  *)
(* does not name are ignored, and the number 1 does not match the boolean  *)
(* true.                                                                   *)
(***************************************************************************)
C23_HasExactly ==
    verdict.done =>
        /\ verdict.value <=>
              \A k \in DOMAIN needle :
                  SameTypeAndValue(PropertyOf(haystack, k), needle[k])
        /\ (haystack = TestHaystack /\ needle = [cool |-> Bool(TRUE)])
              => ~verdict.value
        /\ (haystack = TestHaystack /\ needle = [cool |-> Num(1)])
              => verdict.value

\* the second row of the test corpus: cool is the number 1 in the haystack
\* and the boolean true in the needle, and has has returned false
C23_Witness ==
    /\ verdict.done
    /\ haystack = TestHaystack
    /\ needle = [cool |-> Bool(TRUE)]
    /\ ~verdict.value

\* the presence check of the block at p has succeeded: the call on a
\* mermaid code block with an annotation string has gone past it
PresenceCheckPassed(p) ==
    /\ IsMermaidCode(NodeAt(input, p))
    /\ IsStr(Get(NodeAt(input, p), "meta"))
    /\ calls[p] \notin {NotCalled, ReturnedAst}

(***************************************************************************)
(* C24  Whenever the presence check of a block has succeeded, and so       *)
(* whenever its render has been issued, the parsed file and the parsed     *)
(* name are strings.  The code does not keep this: the check tests k in    *)
(* parsedMeta, which a token without = satisfies with the value undefined. *)
(***************************************************************************)
C24_CheckedMetaDefined ==
    \A p \in DOMAIN calls :
        (PresenceCheckPassed(p) \/ p \in RenderedPaths) =>
            /\ IsStr(Get(ParsedMetaOf(NodeAt(input, p)), "file"))
            /\ IsStr(Get(ParsedMetaOf(NodeAt(input, p)), "name"))

(***************************************************************************)
(* C25 as stated: no node of the input tree has a field modified by a      *)
(* pass, so the tree the caller handed in is at all times as it was.       *)
(***************************************************************************)
C25_InputNeverMutated ==
    input # Null => tree = input

(***************************************************************************)
(* C25  Containers are mutated in place, and only in their children: a     *)
(* node the caller's tree still holds at its path has the fields it had,   *)
(* except that a container whose call has returned has had the rewritten   *)
(* children assigned to its children field; a node without children is     *)
(* never modified.                                                         *)
(***************************************************************************)
C25_MutatesChildrenInPlace ==
    \A p \in DOMAIN calls :
        PathStable(p) =>
            LET now == NodeAt(tree, p)
                was == NodeAt(input, p)
            IN  /\ DOMAIN now = DOMAIN was
                /\ \A k \in DOMAIN was \ {"children"} : now[k] = was[k]
                /\ (HasChildren(was) /\ calls[p].pc = "resolved") =>
                      now.children = ExpectedTree(was).children

\* the transformation has resolved and the tree the caller handed in is no
\* longer what it was: its root holds the pair where the Target Block was
C25_Witness ==
    /\ top.pc = "resolved"
    /\ tree # input
    /\ \E p \in ValidPaths : Len(p) = 1
    /\ Len(tree.children) > Len(input.children)

(***************************************************************************)
(* C26  Render, then write, then replace.  For every valid Target Block:   *)
(* its write is pending or completed only when its render was issued and   *)
(* has produced its output, which is the data written; its pair has been   *)
(* returned only when its write has completed; and when the transformation *)
(* of the document has resolved, the artifact of every valid Target Block  *)
(* has been written.                                                       *)
(***************************************************************************)
C26_RenderWriteReplace ==
    /\ \A p \in ValidPaths :
          /\ calls[p].pc = "awaitWrite" =>
                p \in RenderedPaths /\ p \notin WrittenPaths
          /\ p \in WrittenPaths =>
                /\ p \in RenderedPaths
                /\ calls[p].pc \notin {"notCalled", "awaitRender", "awaitWrite"}
          /\ PairReturned(p) => p \in WrittenPaths
    /\ \A i \in 1..Len(writes) :
          \E j \in 1..Len(renders) :
              /\ renders[j].path = writes[i].path
              /\ writes[i].data = Svg(renders[j].source)
    /\ top.pc = "resolved" => ValidPaths \subseteq WrittenPaths

\* one valid Target Block has been rendered and waits for its write, with
\* no pair yet, while the pair of another has been returned after its write
C26_Witness ==
    \E p, q \in ValidPaths :
        /\ calls[p].pc = "awaitWrite"
        /\ p \notin WrittenPaths
        /\ PairReturned(q)
        /\ q \in WrittenPaths

\* the containers from the root down to the parent of the node at p
Ancestors(p) == {SubSeq(p, 1, k) : k \in 0..(Len(p) - 1)}

\* the calls on nodes without children that have rejected
RejectedLeaves ==
    {p \in DOMAIN calls :
        ~HasChildren(NodeAt(input, p)) /\ calls[p].pc = "rejected"}

(***************************************************************************)
(* C27  Failure is not rolled back.  Once the render or the write of a     *)
(* block has failed the transformation cannot resolve, and when it has     *)
(* rejected and only renders or writes have failed it has rejected with    *)
(* the error of one of them; no container from the root down to the        *)
(* failed block has had its children assigned.  A write that completed     *)
(* after the top-level promise had settled completed after a rejection,    *)
(* never after a success.                                                  *)
(***************************************************************************)
C27_NotRolledBack ==
    /\ \A p \in FailedBlocks :
          /\ top.pc # "resolved"
          /\ \A a \in Ancestors(p) :
                /\ calls[a].pc \in {"awaitChildren", "rejected"}
                /\ ChildrenAsInput(a)
    /\ (top.pc = "rejected" /\ FailedBlocks # {}
            /\ RejectedLeaves \subseteq FailedBlocks) =>
          \E p \in FailedBlocks : top.err = calls[p].err
    /\ \A i \in 1..Len(writes) : writes[i].settled => top.pc = "rejected"

\* the transformation has rejected with the error of a failed render; after
\* that, in another subtree, the write of a Target Block has completed and
\* the container holding the block has had the pair assigned to its
\* children
C27_Witness ==
    /\ top.pc = "rejected"
    /\ \E p \in FailedBlocks : top.err = calls[p].err
    /\ \E i \in 1..Len(writes) :
          LET q == writes[i].path
              c == ParentPath(q)
          IN  /\ writes[i].settled
              /\ c # <<>>
              /\ calls[c].pc = "resolved"
              /\ Len(NodeAt(tree, c).children)
                    > Len(NodeAt(input, c).children)

\* the file a valid Target Block declares
DeclaredFile(p) == ValueOf(NodeAt(input, p).meta.v, "file")

\* the pairs of different valid Target Blocks that declare the same file
SameFilePairs ==
    LET V == ValidPaths
    IN  {pq \in V \X V :
            pq[1] # pq[2] /\ DeclaredFile(pq[1]) = DeclaredFile(pq[2])}

(***************************************************************************)
(* C28  Two valid Target Blocks that declare the same file are both        *)
(* rendered, and when the transformation has resolved both have been       *)
(* written, to the same path, and the file at that path holds the render   *)
(* of the one whose write completed last.                                  *)
(***************************************************************************)
C28_SameFileLastWriteWins ==
    (input # Null /\ calls[<<>>] # NotCalled) =>
        \A pq \in SameFilePairs :
            LET p == pq[1]
                q == pq[2]
            IN  /\ p \in RenderedPaths /\ q \in RenderedPaths
                /\ top.pc = "resolved" =>
                      /\ p \in WrittenPaths /\ q \in WrittenPaths
                      /\ writes[WriteIndex(p)].filepath
                            = writes[WriteIndex(q)].filepath
                      /\ WriteIndex(p) < WriteIndex(q) =>
                            FileContent(writes[WriteIndex(q)].filepath)
                                = Svg(NodeAt(input, q).value)

\* two blocks declaring the same file with different diagrams: the write of
\* the second in the document completed first, and the file holds the
\* diagram of the first
C28_Witness ==
    /\ top.pc = "resolved"
    /\ \E pq \in SameFilePairs :
          LET p == pq[1]
              q == pq[2]
          IN  /\ PathBefore(p, q)
              /\ NodeAt(input, p).value # NodeAt(input, q).value
              /\ WriteIndex(q) < WriteIndex(p)
              /\ FileContent(writes[WriteIndex(p)].filepath)
                    = Svg(NodeAt(input, p).value)

\* the paths of tree at which a node that the transformer would take for a
\* Target Block with file and name sits
CandidatesLeft ==
    {p \in Paths(tree) :
        LET n == NodeAt(tree, p)
        IN  \/ ValidTarget(n)
            \/ AfterChildren(n) \notin {ReturnedAst, AwaitChildren}}

(***************************************************************************)
(* C29  The transformation is idempotent on its own output.  The tree a    *)
(* pass has resolved with holds no valid Target Block, and a pass over     *)
(* that tree issues no render, completes no write, does not reject and     *)
(* leaves the tree as it was handed in.                                    *)
(***************************************************************************)
C29_IdempotentOnOutput ==
    /\ (input # Null /\ top.pc = "resolved") => CandidatesLeft = {}
    /\ rerun =>
          /\ renders = <<>>
          /\ writes = <<>>
          /\ tree = input
          /\ top.pc # "rejected"

\* a second pass has resolved on a tree in which the first pass had put a
\* Replacement Pair
C29_Witness ==
    /\ rerun
    /\ top.pc = "resolved"
    /\ \E p \in Paths(tree) : IsType(NodeAt(tree, p), "imageReference")
    /\ \E p \in Paths(tree) : IsMermaidCode(NodeAt(tree, p))

(***************************************************************************)
(* C30  Termination.  If every issued render and every started write       *)
(* eventually settles, a transformation that has been started eventually   *)
(* settles: it resolves with the tree or rejects.                          *)
(***************************************************************************)
C30_Terminates == (top.pc = "awaitTransformer") ~> TopSettled

\* a transformation of a document with nested blocks has settled after all
\* its renders settled, one of them with a failure
C30_Witness ==
    /\ TopSettled
    /\ Quiescent
    /\ Len(renders) >= 2
    /\ \E p \in DOMAIN calls : Len(p) >= 2 /\ p \in RenderedPaths
    /\ \E p \in DOMAIN calls :
          calls[p].pc = "rejected" /\ calls[p].err.name = "RenderError"
====
